---------------------------- MODULE Spec2Model ----------------------------
(***************************************************************************)
(* A model of app.py: the Flask login / contact / logout application with  *)
(* its WTForms validation chains and its signed-cookie session.            *)
(*                                                                         *)
(* Strings are sequences of one-character strings, so that the validators  *)
(* (strip, upper, lower, len, the regular expressions) are computed the    *)
(* way the code computes them.                                             *)
(***************************************************************************)
EXTENDS Integers, Sequences, FiniteSets, TLC

VARIABLES
    now,        \* wall clock, in seconds
    cookie,     \* the client's session cookie: [present, data, ts]
    contacts,   \* the Contact table, in insertion order
    req,        \* the last request: [endpoint, method, form, csrf]
    resp,       \* the response to the last request
    dbq,        \* the User query the last request ran against storage
    lastLogin,  \* history: when the identity the cookie carries was bound
                \* by a successful login, -1 while it carries none
    field,      \* validator harness: the field value under validation
    verdict     \* validator harness: the validator's answer for field

vars == <<now, cookie, contacts, req, resp, dbq, lastLogin, field, verdict>>

---------------------------------------------------------------------------
(* Bounds of the model *)

\* The clock advances MaxTicks times, by TickLen seconds each time.
TickLen == 2000
MaxTicks == 2
\* At most MaxFlashes notices wait in the session, MaxContacts rows are stored.
MaxFlashes == 2
MaxContacts == 2
\* The validator harness draws field values of at most MaxLen characters.
MaxLen == 3

---------------------------------------------------------------------------
(* Characters and the str methods the code uses *)

LowerSeq == <<"a","b","c","d","e","f","g","h","i","j","k","l","m",
              "n","o","p","q","r","s","t","u","v","w","x","y","z">>
UpperSeq == <<"A","B","C","D","E","F","G","H","I","J","K","L","M",
              "N","O","P","Q","R","S","T","U","V","W","X","Y","Z">>
Digits == {"0","1","2","3","4","5","6","7","8","9"}
Range(s) == {s[i] : i \in DOMAIN s}

\* str.isspace for the ASCII characters of the model
IsSpace(c) == c \in {" ", "\t", "\n"}
\* \w of the re module
WordChars == Range(LowerSeq) \cup Range(UpperSeq) \cup Digits \cup {"_"}
IsWord(c) == c \in WordChars

UpperChar(c) ==
    IF \E i \in DOMAIN LowerSeq : LowerSeq[i] = c
    THEN UpperSeq[CHOOSE i \in DOMAIN LowerSeq : LowerSeq[i] = c]
    ELSE c
LowerChar(c) ==
    IF \E i \in DOMAIN UpperSeq : UpperSeq[i] = c
    THEN LowerSeq[CHOOSE i \in DOMAIN UpperSeq : UpperSeq[i] = c]
    ELSE c
\* str.upper, str.lower
Upper(s) == [i \in DOMAIN s |-> UpperChar(s[i])]
Lower(s) == [i \in DOMAIN s |-> LowerChar(s[i])]

\* str.strip: drops the leading and the trailing whitespace
Strip(s) ==
    LET keep == {i \in DOMAIN s : ~IsSpace(s[i])}
    IN  IF keep = {} THEN <<>>
        ELSE LET lo == CHOOSE i \in keep : \A j \in keep : i <= j
                 hi == CHOOSE i \in keep : \A j \in keep : j <= i
             IN  SubSeq(s, lo, hi)

\* kw occurs in s at position i
OccursAt(s, kw, i) ==
    /\ i >= 1
    /\ i + Len(kw) - 1 <= Len(s)
    /\ \A k \in 1..Len(kw) : s[i + k - 1] = kw[k]
\* the `in` operator on strings
Contains(s, kw) == \E i \in 1..(Len(s) + 1) : OccursAt(s, kw, i)

\* \b of the re module at the gap before s[p]: exactly one of the two
\* neighbours is a word character (the ends of the string count as none)
WordAt(s, p) == p >= 1 /\ p <= Len(s) /\ IsWord(s[p])
Boundary(s, p) == WordAt(s, p - 1) # WordAt(s, p)

\* re.search(r'\b' + re.escape(kw) + r'\b', s)
SearchWord(s, kw) ==
    \E i \in 1..(Len(s) + 1) :
        /\ OccursAt(s, kw, i)
        /\ Boundary(s, i)
        /\ Boundary(s, i + Len(kw))

---------------------------------------------------------------------------
(* Custom validators *)

sql_keywords == <<
    <<"S","E","L","E","C","T">>, <<"I","N","S","E","R","T">>,
    <<"U","P","D","A","T","E">>, <<"D","E","L","E","T","E">>,
    <<"D","R","O","P">>, <<"C","R","E","A","T","E">>,
    <<"A","L","T","E","R">>, <<"E","X","E","C">>, <<"U","N","I","O","N">>,
    <<"S","C","R","I","P","T">>, <<"-","-">>, <<";">>, <<"/","*">>,
    <<"*","/">>, <<"x","p","_">>, <<"s","p","_">>, <<"O","R">>,
    <<"A","N","D">>, <<"1","=","1">>, <<"1"," ","=", " ","1">> >>

\* validate_no_sql_injection raises ValidationError: each keyword, as written
\* in the list, is searched between two \b in the upper-cased data
validate_no_sql_injection(data) ==
    LET data_upper == Upper(data)
    IN  \E k \in DOMAIN sql_keywords : SearchWord(data_upper, sql_keywords[k])

dangerous_chars == <<
    <<"<","s","c","r","i","p","t",">">>,
    <<"<","/","s","c","r","i","p","t",">">>,
    <<"<","i","f","r","a","m","e",">">>,
    <<"j","a","v","a","s","c","r","i","p","t",":">>,
    <<"o","n","e","r","r","o","r","=">>, <<"o","n","l","o","a","d","=">>,
    <<"<","i","m","g">>, <<"<","o","b","j","e","c","t",">">> >>

\* validate_no_xss raises ValidationError
validate_no_xss(data) ==
    LET data_lower == Lower(data)
    IN  \E k \in DOMAIN dangerous_chars : Contains(data_lower, dangerous_chars[k])

\* [\d\s\-\(\)]
PhoneChar(c) == c \in Digits \/ IsSpace(c) \/ c \in {"-", "(", ")"}
\* validate_phone raises ValidationError: ^\+?[\d\s\-\(\)]{10,20}$ does not
\* match; $ also matches before a newline that ends the string
validate_phone(data) ==
    LET body == IF Len(data) >= 1 /\ data[1] = "+" THEN Tail(data) ELSE data
        n == Len(body)
        AllPhone(m) == \A i \in 1..m : PhoneChar(body[i])
    IN  ~ \/ n >= 10 /\ n <= 20 /\ AllPhone(n)
          \/ n = 21 /\ body[n] = "\n" /\ AllPhone(n - 1)

---------------------------------------------------------------------------
(* The wtforms validators the forms use *)

\* DataRequired passes: the data is non-empty and not only whitespace
DataRequired(data) == Len(data) > 0 /\ Len(Strip(data)) > 0

\* Length(min, max) passes; max = -1 is no upper limit
LengthOk(data, min, max) ==
    Len(data) >= min /\ (max = -1 \/ Len(data) <= max)

AText == WordChars \cup {"!", "#", "+", "-", "=", "~"}
\* a dot-separated run of non-empty atoms over `atom`
DotAtom(s, atom) ==
    /\ Len(s) > 0
    /\ \A i \in DOMAIN s : s[i] = "." \/ s[i] \in atom
    /\ s[1] # "." /\ s[Len(s)] # "."
    /\ \A i \in 1..(Len(s) - 1) : ~(s[i] = "." /\ s[i + 1] = ".")
\* Email passes: one @, a dot-atom local part, a domain of at least two
\* labels of letters, digits and inner hyphens
EmailOk(data) ==
    /\ Cardinality({i \in DOMAIN data : data[i] = "@"}) = 1
    /\ LET at == CHOOSE i \in DOMAIN data : data[i] = "@"
           local == SubSeq(data, 1, at - 1)
           domain == SubSeq(data, at + 1, Len(data))
           ldh == (WordChars \ {"_"}) \cup {"-"}
       IN  /\ DotAtom(local, AText)
           /\ DotAtom(domain, ldh)
           /\ \E i \in DOMAIN domain : domain[i] = "."
           /\ \A i \in DOMAIN domain : domain[i] = "-" =>
                  /\ i > 1 /\ i < Len(domain)
                  /\ domain[i - 1] # "." /\ domain[i + 1] # "."

\* the messages of one validator: <<msg>> when `fails`, else none
Err(fails, msg) == IF fails THEN <<msg>> ELSE <<>>

SqlMsg == "Invalid characters or keywords detected"
XssMsg == "Invalid HTML or script content detected"

---------------------------------------------------------------------------
(* Forms with validation *)

\* form.errors: the fields that failed, each with its messages.  DataRequired
\* stops the field's chain; the other validators each add their message.
NoErrors == [f \in {} |-> <<>>]
OnlyFailed(errs) == [f \in {g \in DOMAIN errs : errs[g] # <<>>} |-> errs[f]]

username_errors(data) ==
    IF ~DataRequired(data) THEN <<"Username is required">>
    ELSE Err(~LengthOk(data, 3, 80), "Username must be 3-80 characters")
         \o Err(validate_no_sql_injection(data), SqlMsg)
         \o Err(validate_no_xss(data), XssMsg)
password_errors(data) ==
    IF ~DataRequired(data) THEN <<"Password is required">>
    ELSE Err(~LengthOk(data, 6, -1), "Password must be at least 6 characters")
\* LoginForm.validate
LoginForm(form) ==
    OnlyFailed([username |-> username_errors(form.username),
                password |-> password_errors(form.password)])

name_errors(data) ==
    IF ~DataRequired(data) THEN <<"Name is required">>
    ELSE Err(~LengthOk(data, 2, 100), "Name must be 2-100 characters")
         \o Err(validate_no_sql_injection(data), SqlMsg)
         \o Err(validate_no_xss(data), XssMsg)
email_errors(data) ==
    IF ~DataRequired(data) THEN <<"Email is required">>
    ELSE Err(~EmailOk(data), "Invalid email address")
         \o Err(validate_no_sql_injection(data), SqlMsg)
phone_errors(data) ==
    IF ~DataRequired(data) THEN <<"Phone is required">>
    ELSE Err(validate_phone(data), "Invalid phone number format")
         \o Err(validate_no_sql_injection(data), SqlMsg)
message_errors(data) ==
    IF ~DataRequired(data) THEN <<"Message is required">>
    ELSE Err(~LengthOk(data, 10, 1000), "Message must be 10-1000 characters")
         \o Err(validate_no_sql_injection(data), SqlMsg)
         \o Err(validate_no_xss(data), XssMsg)
\* ContactForm.validate
ContactForm(form) ==
    OnlyFailed([name |-> name_errors(form.name),
                email |-> email_errors(form.email),
                phone |-> phone_errors(form.phone),
                message |-> message_errors(form.message)])

---------------------------------------------------------------------------
(* Database: the User table as init_db seeds it, and bcrypt *)

\* bcrypt.generate_password_hash: an opaque salted hash of the plaintext
generate_password_hash(plain) == [alg |-> "bcrypt", of |-> plain]
\* bcrypt.check_password_hash
check_password_hash(hash, plain) == hash.alg = "bcrypt" /\ hash.of = plain

Ahmed == <<"A","h","m","e","d">>
Umer == <<"U","m","e","r">>
ahmed123 == <<"a","h","m","e","d","1","2","3">>
umer123 == <<"u","m","e","r","1","2","3">>

Users == {
    [id |-> 1, username |-> Ahmed, password |-> generate_password_hash(ahmed123)],
    [id |-> 2, username |-> Umer, password |-> generate_password_hash(umer123)] }

\* User.query.filter_by(username=username): the matching rows
FindUser(username) == {u \in Users : u.username = username}

---------------------------------------------------------------------------
(* The session: Flask's signed cookie, as app.config sets it up *)

PERMANENT_SESSION_LIFETIME == 3600

EmptySession == [k \in {} |-> 0]
NoCookie == [present |-> FALSE, data |-> EmptySession, ts |-> 0]

\* open_session: the cookie's data, unless there is no cookie or its
\* signature is older than the lifetime
OpenSession(c, t) ==
    IF c.present /\ t - c.ts <= PERMANENT_SESSION_LIFETIME
    THEN c.data ELSE EmptySession

\* session.permanent
IsPermanent(s) == "_permanent" \in DOMAIN s /\ s["_permanent"]

\* save_session, at the end of every request: an emptied session deletes the
\* cookie; a modified or a permanent session is signed again, with the
\* time of this request (app.config leaves SESSION_REFRESH_EACH_REQUEST at
\* its default); otherwise the client keeps the cookie it has
SaveSession(c, h, t) ==
    IF DOMAIN h.s = {} THEN (IF h.m THEN NoCookie ELSE c)
    ELSE IF h.m \/ IsPermanent(h.s)
         THEN [present |-> TRUE, data |-> h.s, ts |-> t]
         ELSE c

\* A session in a request is h = [s |-> its items, m |-> session.modified]
Opened(s) == [s |-> s, m |-> FALSE]
\* session[k] = v
SetItem(h, k, v) == [s |-> (k :> v) @@ h.s, m |-> TRUE]
\* session.clear()
Clear(h) == [s |-> EmptySession, m |-> TRUE]

Flashes(s) == IF "_flashes" \in DOMAIN s THEN s["_flashes"] ELSE <<>>
\* flash(message, category)
flash(h, message, category) ==
    SetItem(h, "_flashes", Append(Flashes(h.s), <<category, message>>))
\* get_flashed_messages(): pops the waiting notices
get_flashed_messages(h) ==
    IF "_flashes" \in DOMAIN h.s
    THEN [s |-> [k \in DOMAIN h.s \ {"_flashes"} |-> h.s[k]], m |-> TRUE]
    ELSE h

\* The responses
redirect(endpoint) == [status |-> "redirect", target |-> endpoint, errors |-> NoErrors]
\* render_template: the templates are not among the sources; they display
\* the waiting notices once (the notices are one-shot), and so pop them
render_template(h, template, errors) ==
    [h |-> get_flashed_messages(h),
     resp |-> [status |-> "render", target |-> template, errors |-> errors]]

NoQuery == [ran |-> FALSE, username |-> <<>>]
Query(username) == [ran |-> TRUE, username |-> username]

\* What a view leaves behind: the session, the response, the User query it
\* ran, the rows it committed, and whether it bound an identity
Result(h, response, q, rows, isBound) ==
    [h |-> h, resp |-> response, dbq |-> q, insert |-> rows, bound |-> isBound]
Rendered(r) == Result(r.h, r.resp, NoQuery, <<>>, FALSE)

---------------------------------------------------------------------------
(* The requests the clients send *)

Credentials(username, password) == [username |-> username, password |-> password]
LoginForms == {
    Credentials(Ahmed, ahmed123),
    Credentials(Umer, umer123),
    Credentials(<<" ","A","h","m","e","d">>, ahmed123),   \* padded username
    Credentials(Ahmed, umer123),                          \* wrong password
    Credentials(<<"g","h","o","s","t">>, ahmed123),       \* no such User
    Credentials(<<"a","b"," ">>, ahmed123),   \* three characters, two when stripped
    Credentials(<<"a"," ","o","r"," ","b">>, ahmed123),   \* a blacklisted word
    Credentials(Umer, <<"a","b","c">>) }                  \* a short password
BlankLogin == [username |-> <<>>, password |-> <<>>]

\* A form that passes, and the forms that differ from it in one field
GoodContact ==
    [name |-> <<" ","A","l">>,
     email |-> <<"j","@","e",".","c","o">>,
     phone |-> <<"+","1","2","3","4","5","6","7","8","9","0">>,
     message |-> <<"h","e","l","l","o"," ","t","h","e","r","e">>]
ContactForms == {
    GoodContact,
    [GoodContact EXCEPT !.name = <<"<","i","m","g">>],  \* blacklisted markup
    [GoodContact EXCEPT !.email = <<"j","e",".","c","o">>],
    [GoodContact EXCEPT !.phone = <<"1","2","3","4","5">>],
    [GoodContact EXCEPT !.message = <<"g","o"," ","a","n","d"," ","s","e","e"," ","i","t">>] }
BlankContact == [name |-> <<>>, email |-> <<>>, phone |-> <<>>, message |-> <<>>]

\* form.validate() of every form a client sends, computed once
LoginValidated == {<<form, LoginForm(form)>> : form \in LoginForms \cup {BlankLogin}}
ContactValidated == {<<form, ContactForm(form)>> : form \in ContactForms \cup {BlankContact}}
\* form.errors after form.validate()
form_errors(validated, form) == (CHOOSE p \in validated : p[1] = form)[2]

---------------------------------------------------------------------------
(* Routes *)

\* index
index(s) == Result(Opened(s), redirect("login"), NoQuery, <<>>, FALSE)

\* the branch of login taken when the user is found and the password verifies
login_success(h, user, username) ==
    LET h1 == Clear(h)
        h2 == SetItem(h1, "user_id", user.id)
        h3 == SetItem(h2, "username", user.username)
        h4 == SetItem(h3, "_permanent", TRUE)
        h5 == flash(h4, "Login successful", "success")
    IN  Result(h5, redirect("contact"), Query(username), <<>>, TRUE)

\* login_failure with a notice that tells an unknown username from a wrong
\* password
login_failure_reveals(h, username) ==
    Result(flash(h, IF FindUser(username) = {} THEN "Unknown username"
                    ELSE "Invalid credentials", "error"),
           redirect("login"), Query(username), <<>>, FALSE)

\* login_failure that also clears the session
login_failure_clears(h, username) ==
    Result(flash(Clear(h), "Invalid credentials", "error"), redirect("login"),
           Query(username), <<>>, FALSE)

\* the else branch of login
login_failure(h, username) ==
    Result(flash(h, "Invalid credentials", "error"), redirect("login"),
           Query(username), <<>>, FALSE)

\* login without the password check
login_unverified(s, method, form) ==
    LET h == Opened(s)
        errors == form_errors(LoginValidated, form)
    IN  IF method = "POST" /\ DOMAIN errors = {}
        THEN LET username == Strip(form.username)
                 user == FindUser(username)
             IN  IF user # {}
                 THEN login_success(h, CHOOSE u \in user : TRUE, username)
                 ELSE login_failure(h, username)
        ELSE Rendered(render_template(h, "login.html",
                 IF method = "POST" THEN errors ELSE NoErrors))

\* login
login(s, method, form) ==
    LET h == Opened(s)
        errors == form_errors(LoginValidated, form)
    IN  IF method = "POST" /\ DOMAIN errors = {}
        THEN LET username == Strip(form.username)
                 password == form.password
                 user == FindUser(username)
             IN  IF /\ user # {}
                    /\ check_password_hash((CHOOSE u \in user : TRUE).password, password)
                 THEN login_success(h, CHOOSE u \in user : TRUE, username)
                 ELSE login_failure(h, username)
        ELSE Rendered(render_template(h, "login.html",
                 IF method = "POST" THEN errors ELSE NoErrors))

\* contact_gate without its notice
contact_gate_silent(h) ==
    Result(h, redirect("login"), NoQuery, <<>>, FALSE)

\* the guard at the head of contact
contact_gate(h) ==
    Result(flash(h, "Please login first", "error"), redirect("login"),
           NoQuery, <<>>, FALSE)

\* new_contact owned by the first User, whoever is logged in
new_contact_first_user(s, form) ==
    [user_id |-> 1,
     name |-> Strip(form.name),
     email |-> Strip(form.email),
     phone |-> Strip(form.phone),
     message |-> Strip(form.message)]

\* Contact(...) as contact builds it; the id is set at commit (created_at,
\* which nothing reads, is left out of the rows)
new_contact(s, form) ==
    [user_id |-> s["user_id"],
     name |-> Strip(form.name),
     email |-> Strip(form.email),
     phone |-> Strip(form.phone),
     message |-> Strip(form.message)]

\* contact that stores what is posted whether or not the form validates
contact_unvalidated(s, method, form, dbOk) ==
    LET h == Opened(s)
    IN  IF "user_id" \notin DOMAIN s THEN contact_gate(h)
        ELSE IF method = "POST"
        THEN IF dbOk
             THEN Result(flash(h, "Contact message submitted successfully", "success"),
                         redirect("contact"), NoQuery, <<new_contact(s, form)>>, FALSE)
             ELSE Result(flash(h, "An error occurred. Please try again", "error"),
                         redirect("contact"), NoQuery, <<>>, FALSE)
        ELSE Rendered(render_template(h, "contact.html", NoErrors))

\* contact; dbOk is whether db.session.commit() succeeds
contact(s, method, form, dbOk) ==
    LET h == Opened(s)
        errors == form_errors(ContactValidated, form)
    IN  IF "user_id" \notin DOMAIN s THEN contact_gate(h)
        ELSE IF method = "POST" /\ DOMAIN errors = {}
        THEN IF dbOk
             THEN Result(flash(h, "Contact message submitted successfully", "success"),
                         redirect("contact"), NoQuery, <<new_contact(s, form)>>, FALSE)
             ELSE Result(flash(h, "An error occurred. Please try again", "error"),
                         redirect("contact"), NoQuery, <<>>, FALSE)
        ELSE Rendered(render_template(h, "contact.html",
                 IF method = "POST" THEN errors ELSE NoErrors))

\* logout without session.clear()
logout_keeps_session(s) ==
    Result(flash(Opened(s), "You have been logged out", "success"),
           redirect("login"), NoQuery, <<>>, FALSE)

\* logout
logout(s) ==
    Result(flash(Clear(Opened(s)), "You have been logged out", "success"),
           redirect("login"), NoQuery, <<>>, FALSE)

\* CSRFProtect: a POST without a valid token is aborted before its view runs
csrf_reject(s, endpoint) ==
    Result(Opened(s), [status |-> "bad_request", target |-> endpoint, errors |-> NoErrors],
           NoQuery, <<>>, FALSE)

---------------------------------------------------------------------------
(* The state machine *)

\* db.session.add and commit: the row gets the next id
Commit(table, rows) ==
    table \o [i \in DOMAIN rows |-> ("id" :> (Len(table) + i)) @@ rows[i]]

\* A request: the endpoint it is routed to, its method, its form data, and
\* whether it gets past CSRFProtect (any GET; a POST with a valid token)
NoForm == [f \in {} |-> <<>>]
Req(endpoint, method, form, csrf) ==
    [endpoint |-> endpoint, method |-> method, form |-> form, csrf |-> csrf]

Init ==
    /\ now = 0
    /\ cookie = NoCookie
    /\ contacts = <<>>
    /\ req = Req("index", "GET", NoForm, TRUE)
    /\ resp = redirect("login")
    /\ dbq = NoQuery
    /\ lastLogin = -1
    /\ field = <<>>
    /\ verdict = "none"

\* One request: the session is opened from the cookie, the view runs, the
\* session is saved to the cookie
Request(request, result) ==
    \E r \in {result} :
    /\ req' = request
    /\ Len(Flashes(r.h.s)) <= MaxFlashes
    /\ Len(contacts) + Len(r.insert) <= MaxContacts
    /\ cookie' = SaveSession(cookie, r.h, now)
    /\ contacts' = Commit(contacts, r.insert)
    /\ resp' = r.resp
    /\ dbq' = r.dbq
    /\ lastLogin' = IF r.bound THEN now
                    ELSE IF "user_id" \in DOMAIN cookie'.data THEN lastLogin
                    ELSE -1
    /\ UNCHANGED <<now, field, verdict>>

Session == OpenSession(cookie, now)

Index == Request(Req("index", "GET", NoForm, TRUE), index(Session))
LoginGet == Request(Req("login", "GET", NoForm, TRUE), login(Session, "GET", BlankLogin))
LoginPost(form) == Request(Req("login", "POST", form, TRUE), login(Session, "POST", form))
ContactGet ==
    Request(Req("contact", "GET", NoForm, TRUE), contact(Session, "GET", BlankContact, TRUE))
ContactPost(form) ==
    \E dbOk \in BOOLEAN :
        Request(Req("contact", "POST", form, TRUE), contact(Session, "POST", form, dbOk))
Logout == Request(Req("logout", "GET", NoForm, TRUE), logout(Session))
\* a POST whose CSRF token is missing or wrong
CsrfReject ==
    \E endpoint \in {"login", "contact"} :
        Request(Req(endpoint, "POST", NoForm, FALSE), csrf_reject(Session, endpoint))

\* Time passes between requests
Tick ==
    /\ now < MaxTicks * TickLen
    /\ now' = now + TickLen
    /\ UNCHANGED <<cookie, contacts, req, resp, dbq, lastLogin, field, verdict>>

Next ==
    \/ Index
    \/ LoginGet
    \/ \E form \in LoginForms : LoginPost(form)
    \/ ContactGet
    \/ \E form \in ContactForms : ContactPost(form)
    \/ Logout
    \/ CsrfReject
    \/ Tick

Spec == Init /\ [][Next]_vars

---------------------------------------------------------------------------
(* The validator harness: a field value is drawn, the validator answers *)

Alphabet == {"o", "R", "x", "p", "_", "-", ";", " "}
FieldValues == UNION {[1..n -> Alphabet] : n \in 0..MaxLen}

InitV ==
    /\ now = 0
    /\ cookie = NoCookie
    /\ contacts = <<>>
    /\ req = Req("index", "GET", NoForm, TRUE)
    /\ resp = redirect("login")
    /\ dbq = NoQuery
    /\ lastLogin = -1
    /\ field \in FieldValues
    /\ verdict = "none"

\* the field is run through validate_no_sql_injection
Validate ==
    /\ verdict = "none"
    /\ verdict' = IF validate_no_sql_injection(field) THEN "rejected" ELSE "accepted"
    /\ UNCHANGED <<now, cookie, contacts, req, resp, dbq, lastLogin, field>>

NextV == Validate

SpecV == InitV /\ [][NextV]_vars

---------------------------------------------------------------------------
(* Properties *)

\* the step is a request that the view of `endpoint` handles
Handled(endpoint) == now' = now /\ req'.endpoint = endpoint /\ req'.csrf
\* the identity a session binds: its user_id and username items
IdOf(s) == [k \in DOMAIN s \cap {"user_id", "username"} |-> s[k]]
\* the identity the server sees in the client's cookie
CurrentId == IdOf(OpenSession(cookie, now))
LastFlash(s) == Flashes(s)[Len(Flashes(s))]
\* the instants from t on that the clock can show
Later(t) == {t + k * TickLen : k \in 0..MaxTicks}
\* the session a successful login of user u leaves
FreshSession(u) ==
    [user_id |-> u.id, username |-> u.username, _permanent |-> TRUE,
     _flashes |-> << <<"success", "Login successful">> >>]
\* the form passes the login policy
PassesLogin(form) ==
    username_errors(form.username) = <<>> /\ password_errors(form.password) = <<>>
\* the form passes the contact policy
PassesContact(form) ==
    /\ name_errors(form.name) = <<>>
    /\ email_errors(form.email) = <<>>
    /\ phone_errors(form.phone) = <<>>
    /\ message_errors(form.message) = <<>>
\* the forms the clients send that pass their policy
PassingLogins == {f \in LoginForms : PassesLogin(f)}
PassingContacts == {f \in ContactForms : PassesContact(f)}
\* the form passes the login policy, its username is the stored User u's and
\* its password is the one u's hash was made from
Authenticates(form, u) ==
    /\ form \in PassingLogins
    /\ u \in Users
    /\ u.username = Strip(form.username)
    /\ u.password = generate_password_hash(form.password)

\* C1: a GET or POST /contact handled while the session holds no user_id is
\* answered with a redirect to /login carrying 'Please login first' and
\* leaves the Contacts unchanged; with a user_id in the session the request
\* is let through, with that identity.
C1_AuthGate ==
    [][Handled("contact") =>
          IF "user_id" \notin DOMAIN Session
          THEN /\ resp' = redirect("login")
               /\ contacts' = contacts
               /\ Flashes(cookie'.data) # <<>>
               /\ LastFlash(cookie'.data) = <<"error", "Please login first">>
          ELSE /\ resp'.target \in {"contact", "contact.html"}
               /\ IdOf(cookie'.data) = IdOf(Session)
               /\ \A i \in DOMAIN contacts' \ DOMAIN contacts :
                      contacts'[i].user_id = Session["user_id"]]_vars

\* C1 witness: a POST /contact of a client that is not logged in was turned away
C1_Witness ==
    /\ req = Req("contact", "POST", GoodContact, TRUE)
    /\ resp = redirect("login")
    /\ "user_id" \notin DOMAIN cookie.data
    /\ LastFlash(cookie.data) = <<"error", "Please login first">>
    /\ contacts = <<>>

\* C2: the session gets a user_id only from a POST /login whose form passed
\* the policy, whose username is a stored User's and whose password verifies;
\* user_id and username are that User's, and are present or absent together.
C2_AuthenticatedOnlyByLogin ==
    [][/\ ("user_id" \in DOMAIN cookie'.data) <=> ("username" \in DOMAIN cookie'.data)
       /\ "user_id" \in DOMAIN cookie'.data =>
              \E u \in Users : IdOf(cookie'.data) = [user_id |-> u.id, username |-> u.username]
       /\ ("user_id" \in DOMAIN cookie'.data
             /\ (IdOf(cookie'.data) # IdOf(cookie.data) \/ lastLogin' # lastLogin)) =>
              /\ Handled("login") /\ req'.method = "POST"
              /\ \E u \in Users :
                     /\ Authenticates(req'.form, u)
                     /\ IdOf(cookie'.data) = [user_id |-> u.id, username |-> u.username]]_vars

\* C2 witness: a login with a padded username is logged in as Ahmed
C2_Witness ==
    /\ req.endpoint = "login" /\ req.form # NoForm /\ req.form.username # Ahmed
    /\ "user_id" \in DOMAIN cookie.data
    /\ cookie.data["user_id"] = 1
    /\ resp = redirect("contact")

\* C3: from any session, GET /logout redirects to /login and leaves a session
\* with no identity and none of its prior items; a second logout leaves the
\* same session, and a GET /contact that follows is redirected to /login.
C3_LogoutClears ==
    [][Handled("logout") =>
          /\ resp' = redirect("login")
          /\ cookie'.data = [_flashes |-> << <<"success", "You have been logged out">> >>]
          /\ \A t \in Later(now') :
                 \E s1 \in {OpenSession(cookie', t)} :
                     /\ logout(s1).h.s = cookie'.data
                     /\ logout(s1).resp = redirect("login")
                     /\ contact(s1, "GET", BlankContact, TRUE).resp = redirect("login")]_vars

\* C3 witness: a client that was logged in (it stored a Contact) is logged out
C3_Witness ==
    /\ req.endpoint = "logout"
    /\ contacts # <<>>
    /\ resp = redirect("login")
    /\ cookie.data = [_flashes |-> << <<"success", "You have been logged out">> >>]

\* the forms that pass the policy and name no stored User
UnknownUsername ==
    {f \in PassingLogins : \A u \in Users : u.username # Strip(f.username)}
\* the forms that pass the policy and name a stored User with another password
WrongPassword ==
    {f \in PassingLogins : \E u \in Users :
                               /\ u.username = Strip(f.username)
                               /\ u.password # generate_password_hash(f.password)}
\* C4: in every state, a valid login form with an unknown username and one
\* with a stored username and a wrong password get the same response, the
\* same notice and the same session.
C4_SameFailure ==
    \A f1 \in UnknownUsername, f2 \in WrongPassword :
        \E r1 \in {login(Session, "POST", f1)}, r2 \in {login(Session, "POST", f2)} :
            /\ r1.resp = redirect("login")
            /\ LastFlash(r1.h.s) = <<"error", "Invalid credentials">>
            /\ r1.resp = r2.resp
            /\ r1.h = r2.h
            /\ SaveSession(cookie, r1.h, now) = SaveSession(cookie, r2.h, now)

\* C4 witness: a login with a stored username and a wrong password failed
C4_Witness ==
    /\ req.endpoint = "login" /\ req.form \in WrongPassword
    /\ resp = redirect("login")
    /\ Flashes(cookie.data) = << <<"error", "Invalid credentials">> >>

\* C5: a POST /contact with a failing field stores no Contact, a POST /login
\* with a failing field runs no User query and binds no identity; both
\* render the form again with the field errors.
C5_RejectedWhole ==
    [][/\ (Handled("contact") /\ req'.method = "POST" /\ req'.form \notin PassingContacts) =>
              /\ contacts' = contacts
              /\ "user_id" \in DOMAIN Session =>
                     /\ resp'.status = "render" /\ resp'.target = "contact.html"
                     /\ resp'.errors # NoErrors
       /\ (Handled("login") /\ req'.method = "POST" /\ req'.form \notin PassingLogins) =>
              /\ ~dbq'.ran
              /\ CurrentId' = CurrentId
              /\ resp'.status = "render" /\ resp'.target = "login.html"
              /\ resp'.errors # NoErrors]_vars

\* C5 witness: an authenticated POST /contact was rejected for its name
C5_Witness ==
    /\ req.endpoint = "contact" /\ req.method = "POST"
    /\ "user_id" \in DOMAIN cookie.data
    /\ resp.status = "render" /\ resp.target = "contact.html"
    /\ "name" \in DOMAIN resp.errors
    /\ contacts = <<>>

Letters == Range(LowerSeq) \cup Range(UpperSeq)
\* kw stands in s as a whole word: no word character on either side
WholeWord(s, kw) ==
    \E i \in 1..(Len(s) + 1) :
        /\ OccursAt(s, kw, i)
        /\ ~WordAt(s, i - 1)
        /\ ~WordAt(s, i + Len(kw))
\* a keyword of letters only is looked for as a whole word, any other as the
\* exact sequence, both without regard to case
HoldsToken(value, kw) ==
    IF Range(kw) \subseteq Letters
    THEN WholeWord(Upper(value), Upper(kw))
    ELSE Contains(Upper(value), Upper(kw))
Blacklisted(value) == \E k \in DOMAIN sql_keywords : HoldsToken(value, sql_keywords[k])
\* C6: validate_no_sql_injection rejects a value exactly when the value
\* holds, in any case, a blacklisted word as a whole word or a blacklisted
\* sequence of other characters.
C6_RejectsExactlyBlacklisted ==
    verdict # "none" => (verdict = "rejected" <=> Blacklisted(field))

\* C7: the value looked up at login and the values stored in a Contact are
\* trimmed and satisfy their field's rules.
C7_UsedValuesSatisfyRules ==
    /\ dbq.ran => /\ dbq.username = Strip(dbq.username)
                  /\ username_errors(dbq.username) = <<>>
    /\ \A i \in DOMAIN contacts :
           /\ name_errors(contacts[i].name) = <<>>
           /\ email_errors(contacts[i].email) = <<>>
           /\ phone_errors(contacts[i].phone) = <<>>
           /\ message_errors(contacts[i].message) = <<>>

\* C8: a /contact request that arrives more than 3600 seconds after the login
\* that bound the session's identity is redirected to /login, whatever
\* requests were made in between.
C8_AbsoluteExpiry ==
    [][(Handled("contact") /\ lastLogin >= 0
          /\ now - lastLogin > PERMANENT_SESSION_LIFETIME) =>
          resp' = redirect("login")]_vars

\* C9: a step either leaves the Contacts as they are or appends one Contact
\* whose user_id is the identity of the session that posted it, an existing
\* User; every stored Contact's user_id is an existing User's id.
C9_ContactOwner ==
    [][/\ \/ contacts' = contacts
          \/ /\ Len(contacts') = Len(contacts) + 1
             /\ SubSeq(contacts', 1, Len(contacts)) = contacts
             /\ Handled("contact") /\ req'.method = "POST"
             /\ "user_id" \in DOMAIN Session
             /\ contacts'[Len(contacts')].user_id = Session["user_id"]
       /\ \A i \in DOMAIN contacts' : \E u \in Users : u.id = contacts'[i].user_id]_vars

\* C9 witness: Umer, logged in after Ahmed, stored a Contact of his own
C9_Witness ==
    /\ Len(contacts) = 2
    /\ contacts[1].user_id = 1
    /\ contacts[2].user_id = 2
    /\ cookie.data["user_id"] = 2

\* C10: a POST /login that is rejected (the form fails, the username is
\* unknown or the password does not verify) leaves the session's identity as
\* it was; one that succeeds leaves a fresh session bound to the new User.
C10_FailedLoginKeepsIdentity ==
    [][(Handled("login") /\ req'.method = "POST") =>
          IF \E u \in Users : Authenticates(req'.form, u)
          THEN \E u \in Users : /\ Authenticates(req'.form, u)
                                /\ cookie'.data = FreshSession(u)
          ELSE CurrentId' = CurrentId]_vars

\* C10 witness: logged in as Ahmed, a login with a wrong password failed
C10_Witness ==
    /\ req.endpoint = "login" /\ req.form \in WrongPassword
    /\ resp = redirect("login")
    /\ "user_id" \in DOMAIN cookie.data
    /\ cookie.data["user_id"] = 1

=============================================================================
